---- MODULE Spec2Model ----
(***************************************************************************)
(* Model of uperf_plugin.py: the profile writer (write_profile), the log   *)
(* parser (process_output), the client step (run_uperf) and the server     *)
(* step (run_uperf_server).                                                *)
(*                                                                         *)
(* The captured output is modelled after decoding, as the sequence of its  *)
(* lines; a line is a record whose kind says which of the patterns the     *)
(* code searches for it matches.  A timestamp text is modelled by its      *)
(* value in sixteenths of a millisecond (ts16), a domain on which the      *)
(* float arithmetic of the code is exact.                                  *)
(***************************************************************************)
EXTENDS Integers, Sequences, FiniteSets, TLC

\* ------------------------------------------------------------------ bounds
MaxLines == 3
MaxNodes == 4
MaxDuration == 4

\* ------------------------------------------------------------ output text
TxnIndexes == {1, 3}
TimestampTexts == {16000, 24000, 24001}   \* "1000.0", "1500.0", "1500.0625"
OpsValues == {0, 3, 50}
BytesValues == {7}

OtherLine == [kind |-> "other", name |-> "", ts16 |-> 0, float_ok |-> TRUE,
              txn |-> 0, nr_bytes |-> 0, nr_ops |-> 0]
ProfileLine == [OtherLine EXCEPT !.kind = "profile", !.name = "netperf"]
AbortedLine == [OtherLine EXCEPT !.kind = "aborted"]
WarningLine == [OtherLine EXCEPT !.kind = "warning"]

SampleLine(ts, ok, txn, nbytes, ops) ==
    [kind |-> "sample", name |-> "", ts16 |-> ts, float_ok |-> ok,
     txn |-> txn, nr_bytes |-> nbytes, nr_ops |-> ops]

\* sample records with a well-formed timestamp, and one whose timestamp
\* text matches [\d\.]+ but is no float ("1.2.3")
SampleLines ==
    {SampleLine(ts, TRUE, txn, b, ops) :
        ts \in TimestampTexts, txn \in TxnIndexes, b \in BytesValues,
        ops \in OpsValues}
    \cup {SampleLine(0, FALSE, 1, 7, 50)}

ParseLines == {ProfileLine, OtherLine} \cup SampleLines

SeqsUpTo(S, n) == UNION {[1..k -> S] : k \in 0..n}

\* ------------------------------------------------------------- the parser
NoFn == [x \in {} |-> 0]

\* re.search(r"running profile:(.+) \.\.\.")
profile_run_search(text) ==
    IF \E i \in 1..Len(text) : text[i].kind = "profile"
    THEN LET i == CHOOSE j \in 1..Len(text) :
                    /\ text[j].kind = "profile"
                    /\ \A k \in 1..(j-1) : text[k].kind # "profile"
         IN <<text[i].name>>
    ELSE <<>>

\* re.findall(r"timestamp_ms:... name:Txn... nr_bytes:... nr_ops:...")
timeseries_data_search(text) == SelectSeq(text, LAMBDA l : l.kind = "sample")

\* int(a / b) for b > 0: the quotient truncated towards zero
TruncDiv(a, b) == IF a >= 0 THEN a \div b ELSE -((-a) \div b)

\* int(float(datapoint[0]) * 1000)
TimeOf(datapoint) == (datapoint.ts16 * 1000) \div 16

NsPerOp_Unscaled(time, last, ops) == TruncDiv(time - last, ops)

\* int(1000 * (time - last) / ops)
NsPerOp(time, last, ops) == TruncDiv(1000 * (time - last), ops)

UPerfRawData(nbytes, ops, ns) ==
    [nr_bytes |-> nbytes, nr_ops |-> ops, ns_per_op |-> ns]

Put(f, k, v) == [x \in DOMAIN f \cup {k} |-> IF x = k THEN v ELSE f[x]]

Keeps_NoDiscard(ops, transaction_index, last) == TRUE

\* whether the loop body stores a measurement for this datapoint
Keeps(ops, transaction_index, last) ==
    ops # 0 \/ transaction_index \in DOMAIN last

LoopInit == [timeseries_data |-> NoFn,
             transaction_last_timestamp |-> NoFn,
             raised |-> "none"]

\* one iteration of the loop over the datapoints
ProcessDatapoint(st, datapoint) ==
    IF ~datapoint.float_ok
    THEN [st EXCEPT !.raised = "ValueError"]
    ELSE
    LET time == TimeOf(datapoint)
        transaction_index == datapoint.txn
        ops == datapoint.nr_ops
        last == st.transaction_last_timestamp
        data == st.timeseries_data
    IN  IF Keeps(ops, transaction_index, last)
        THEN IF ops # 0 /\ transaction_index \notin DOMAIN last
             THEN [st EXCEPT !.raised = "KeyError"]
             ELSE LET ns_per_op ==
                          IF ops # 0
                          THEN NsPerOp(time, last[transaction_index], ops)
                          ELSE 0
                      inner == IF transaction_index \in DOMAIN data
                               THEN data[transaction_index] ELSE NoFn
                  IN [st EXCEPT
                        !.timeseries_data =
                            Put(data, transaction_index,
                                Put(inner, time,
                                    UPerfRawData(datapoint.nr_bytes, ops,
                                                 ns_per_op))),
                        !.transaction_last_timestamp =
                            Put(last, transaction_index, time)]
        ELSE [st EXCEPT !.transaction_last_timestamp =
                            Put(last, transaction_index, time)]

NoResult == [tag |-> "none", kind |-> "", profile_name |-> "",
             timeseries_data |-> NoFn, text |-> <<>>]
Raised(exc) == [NoResult EXCEPT !.tag = "raised", !.kind = exc]
UPerfError(kind, text) ==
    [NoResult EXCEPT !.tag = "error", !.kind = kind, !.text = text]
UPerfResults(name, data) ==
    [NoResult EXCEPT !.tag = "success", !.profile_name = name,
                     !.timeseries_data = data]

\* the return statements after the loop
Finish(text, datapoints, st) ==
    IF Len(datapoints) = 0
    THEN UPerfError("No results found", text)
    ELSE UPerfResults(profile_run_search(text)[1], st.timeseries_data)

RECURSIVE RunLoop(_, _, _)
RunLoop(st, datapoints, i) ==
    IF i > Len(datapoints) \/ st.raised # "none" THEN st
    ELSE RunLoop(ProcessDatapoint(st, datapoints[i]), datapoints, i + 1)

\* process_output as a function of the decoded text
process_output(text) ==
    IF profile_run_search(text) = <<>>
    THEN UPerfError("could not find profile name", text)
    ELSE LET datapoints == timeseries_data_search(text)
             st == RunLoop(LoopInit, datapoints, 1)
         IN IF st.raised # "none" THEN Raised(st.raised)
            ELSE Finish(text, datapoints, st)

\* ------------------------------------------------------ the workload model
None == <<>>
Some(v) == <<v>>

Flowops == {[type |-> "connect", options |-> <<>>],
            [type |-> "write", options |-> <<"size=64", "count=2">>]}
\* (iterations, duration, rate), each populated or not
Terminations ==
    {[iterations |-> i, duration |-> d, rate |-> r] :
        i \in {None, Some(10)}, d \in {None, Some(30)}, r \in {None, Some(5)}}
\* (nthreads, nprocs), each populated or not
Concurrencies ==
    {[nthreads |-> t, nprocs |-> p] :
        t \in {None, Some(16)}, p \in {None, Some(2)}}

Transaction(term, flowops) ==
    [iterations |-> term.iterations, duration |-> term.duration,
     rate |-> term.rate, flowops |-> flowops]
Group(conc, transactions) ==
    [nthreads |-> conc.nthreads, nprocs |-> conc.nprocs,
     transactions |-> transactions]
Profile(name, groups) == [name |-> name, groups |-> groups]

\* A profile is drawn as the preorder listing of its nodes: a group, its
\* transactions, each followed by its flowops.
NoFlowop == [type |-> "", options |-> <<>>]
NoTermination == [iterations |-> None, duration |-> None, rate |-> None]
NoConcurrency == [nthreads |-> None, nprocs |-> None]
Nodes ==
    {[level |-> "group", conc |-> c, term |-> NoTermination, flowop |-> NoFlowop] :
        c \in Concurrencies}
    \cup {[level |-> "transaction", conc |-> NoConcurrency, term |-> t,
           flowop |-> NoFlowop] : t \in Terminations}
    \cup {[level |-> "flowop", conc |-> NoConcurrency, term |-> NoTermination,
           flowop |-> f] : f \in Flowops}

\* the listing starts with a group and no flowop follows a group directly
WellFormed(listing) ==
    /\ Len(listing) > 0 => listing[1].level = "group"
    /\ \A i \in 2..Len(listing) :
          listing[i].level = "flowop" => listing[i - 1].level # "group"

\* the positions from..to of the listing that hold a node of the level
StartsOf(listing, level, from, to) ==
    SelectSeq([i \in 1..(to - from + 1) |-> from + i - 1],
              LAMBDA i : listing[i].level = level)
\* the end of the part that starts at the k-th of the positions
EndOf(starts, k, to) == IF k < Len(starts) THEN starts[k + 1] - 1 ELSE to

TransactionAt(listing, from, to) ==
    Transaction(listing[from].term,
                [f \in 1..(to - from) |-> listing[from + f].flowop])

GroupAt(listing, from, to) ==
    LET starts == StartsOf(listing, "transaction", from + 1, to)
    IN Group(listing[from].conc,
             [t \in 1..Len(starts) |->
                 TransactionAt(listing, starts[t], EndOf(starts, t, to))])

\* the profile of a well-formed listing
ProfileOf(listing) ==
    LET starts == StartsOf(listing, "group", 1, Len(listing))
    IN Profile("netperf",
               [g \in 1..Len(starts) |->
                   GroupAt(listing, starts[g], EndOf(starts, g, Len(listing)))])

\* ------------------------------------------------------ the profile writer
\* str() of a non-negative integer: its decimal digits
DigitChars == <<"0", "1", "2", "3", "4", "5", "6", "7", "8", "9">>
RECURSIVE Str(_)
Str(n) == IF n < 10 THEN <<DigitChars[n + 1]>>
          ELSE Str(n \div 10) \o <<DigitChars[(n % 10) + 1]>>

\* " ".join(options)
RECURSIVE Join(_)
Join(options) ==
    IF Len(options) = 0 THEN <<>>
    ELSE IF Len(options) = 1 THEN <<options[1]>>
    ELSE <<options[1], " ">> \o Join(Tail(options))

\* flowop.get_options(): the option strings of the flowop, in order
get_options(flowop) == flowop.options

\* ET.Element(tag) after its set() and append() calls
Element(tag, attrib, children) ==
    [tag |-> tag, attrib |-> attrib, children |-> children]
Attr(key, value) == [key |-> key, value |-> value]

flowop_element(flowop) ==
    Element("flowop",
            <<Attr("type", <<flowop.type>>)>>
            \o (IF Len(get_options(flowop)) > 0
                THEN <<Attr("options", Join(get_options(flowop)))>>
                ELSE <<>>),
            <<>>)

\* the attribute set on a transaction node
TransactionAttrib(transaction) ==
    IF transaction.iterations # None
    THEN <<Attr("iterations", Str(transaction.iterations[1]))>>
    ELSE IF transaction.duration # None
    THEN <<Attr("duration", Str(transaction.duration[1]))>>
    ELSE IF transaction.rate # None
    THEN <<Attr("rate", Str(transaction.rate[1]))>>
    ELSE <<>>

transaction_element(transaction) ==
    Element("transaction", TransactionAttrib(transaction),
            [i \in 1..Len(transaction.flowops) |->
                flowop_element(transaction.flowops[i])])

GroupAttrib_Both(group) ==
    (IF group.nthreads # None
     THEN <<Attr("nthreads", Str(group.nthreads[1]))>> ELSE <<>>)
    \o (IF group.nprocs # None
        THEN <<Attr("nprocs", Str(group.nprocs[1]))>> ELSE <<>>)

\* the attribute set on a group node
GroupAttrib(group) ==
    IF group.nthreads # None
    THEN <<Attr("nthreads", Str(group.nthreads[1]))>>
    ELSE IF group.nprocs # None
    THEN <<Attr("nprocs", Str(group.nprocs[1]))>>
    ELSE <<>>

group_element(group) ==
    Element("group", GroupAttrib(group),
            [i \in 1..Len(group.transactions) |->
                transaction_element(group.transactions[i])])

\* the tree write_profile builds
profile_tree(profile) ==
    Element("profile", <<Attr("name", <<profile.name>>)>>,
            [i \in 1..Len(profile.groups) |-> group_element(profile.groups[i])])

\* a file at profile_path: the serialized tree, if one was written, and the
\* number of newlines appended after it
Document(content, newlines) ==
    [xml_declaration |-> content # <<>>, encoding |-> "us-ascii",
     content |-> content, newlines |-> newlines]

\* ET.indent(tree); ET.ElementTree(tree).write(profile_path, ...)
tree_write(profile) == Document(<<profile_tree(profile)>>, 0)

append_newline_Truncating(file) == <<Document(<<>>, 1)>>

\* open(profile_path, "a").write("\n"): appends to the file that is there,
\* creating it when there is none
append_newline(file) ==
    IF file = <<>> THEN <<Document(<<>>, 1)>>
    ELSE <<[file[1] EXCEPT !.newlines = @ + 1]>>

\* the document write_profile leaves at profile_path
write_profile(profile) == append_newline(<<tree_write(profile)>>)

\* -------------------------------------------------------------- the client
\* the pipes start_client asks Popen for
start_client == [stdout |-> "PIPE", stderr |-> "inherit"]

\* Popen.communicate(): the data of a piped stream, None for the others
communicate(process, out, err) ==
    [outs |-> IF process.stdout = "PIPE" THEN Some(out) ELSE None,
     errs |-> IF process.stderr = "PIPE" THEN Some(err) ELSE None]

HasErrorMarker_AbortedOnly(text) ==
    \E i \in 1..Len(text) : text[i].kind = "aborted"

\* outs.find(b"aborted") != -1 or outs.find(b"WARNING: ...") != -1
HasErrorMarker(text) ==
    \E i \in 1..Len(text) : text[i].kind \in {"aborted", "warning"}

\* lines 212-225 of run_uperf: the value returned for the captured streams
run_uperf_return(captured) ==
    IF captured.errs # None /\ Len(captured.errs[1]) > 0
    THEN Raised("TypeError")          \* bytes + str
    ELSE IF HasErrorMarker(captured.outs[1])
    THEN UPerfError("Errors found in run", captured.outs[1])
    ELSE process_output(captured.outs[1])

\* ------------------------------------------------------------- the server
UPerfServerError(exit_code, text) ==
    [tag |-> "error", exit_code |-> exit_code, output |-> text]
UPerfServerResults == [tag |-> "success", exit_code |-> 0, output |-> <<>>]
ServerRaised == [tag |-> "raised", exit_code |-> 0, output |-> <<>>]
ServerNoResult == [tag |-> "none", exit_code |-> 0, output |-> <<>>]

run_uperf_server_return_ZeroIsSuccess(process) ==
    IF process.state = "exited" /\ process.returncode # 0
    THEN UPerfServerError(process.returncode, process.stdout \o process.stderr)
    ELSE UPerfServerResults

\* subprocess.run(..., timeout=run_duration) and what run_uperf_server
\* makes of it: a CompletedProcess, or TimeoutExpired
run_uperf_server_return(process) ==
    IF process.state = "exited"
    THEN UPerfServerError(process.returncode, process.stdout \o process.stderr)
    ELSE UPerfServerResults

\* ------------------------------------------------------------------ state
VARIABLES
    output,        \* process_output: the decoded text
    ppc,           \* process_output: position in the function
    datapoints,    \* process_output: the findall result
    pos,           \* process_output: datapoints consumed by the loop
    loop,          \* process_output: timeseries_data, last timestamps
    presult,       \* process_output: the returned value
    wp_profile,    \* write_profile: its argument
    wp_file,       \* write_profile: profile.xml, <<>> while absent
    file,          \* run_uperf: profile.xml at profile_path, <<>> while absent
    pc,            \* run_uperf: position of each invocation
    child,         \* run_uperf: the child process of each invocation
    captured,      \* run_uperf: (outs, errs) of each invocation
    result,        \* run_uperf: the returned value of each invocation
    overlapped,    \* run_uperf: an invocation began while another was running
    spc,           \* run_uperf_server: position in the function
    run_duration,  \* run_uperf_server: params.run_duration
    clock,         \* run_uperf_server: time since the launch
    server,        \* run_uperf_server: the server process
    sresult        \* run_uperf_server: the returned value

parseVars == <<output, ppc, datapoints, pos, loop, presult>>
profileVars == <<wp_profile, wp_file>>
clientVars == <<file, pc, child, captured, result, overlapped>>
serverVars == <<spc, run_duration, clock, server, sresult>>
vars == <<parseVars, profileVars, clientVars, serverVars>>

\* ----------------------------------------------------------- process_output
\* lines 90-110: the two searches
ParseSearch ==
    /\ ppc = "start"
    /\ IF profile_run_search(output) = <<>>
       THEN /\ ppc' = "done"
            /\ presult' = UPerfError("could not find profile name", output)
            /\ UNCHANGED datapoints
       ELSE /\ ppc' = "loop"
            /\ datapoints' = timeseries_data_search(output)
            /\ UNCHANGED presult
    /\ UNCHANGED <<output, pos, loop, profileVars, clientVars, serverVars>>

\* lines 112-140: one iteration
ParseDatapoint ==
    /\ ppc = "loop"
    /\ pos < Len(datapoints)
    /\ LET st == ProcessDatapoint(loop, datapoints[pos + 1])
       IN /\ loop' = st
          /\ IF st.raised # "none"
             THEN /\ ppc' = "done"
                  /\ presult' = Raised(st.raised)
                  /\ UNCHANGED pos
             ELSE /\ pos' = pos + 1
                  /\ UNCHANGED <<ppc, presult>>
    /\ UNCHANGED <<output, datapoints, profileVars, clientVars, serverVars>>

\* lines 142-149
ParseReturn ==
    /\ ppc = "loop"
    /\ pos = Len(datapoints)
    /\ ppc' = "done"
    /\ presult' = Finish(output, datapoints, loop)
    /\ UNCHANGED <<output, datapoints, pos, loop, profileVars, clientVars,
                   serverVars>>

ParseNext == ParseSearch \/ ParseDatapoint \/ ParseReturn

\* ------------------------------------------------------------ write_profile
WriteProfile ==
    /\ wp_file = <<>>
    /\ wp_file' = write_profile(wp_profile)
    /\ UNCHANGED <<wp_profile, parseVars, clientVars, serverVars>>

\* ---------------------------------------------------------------- run_uperf
\* two invocations of the step in one working directory
Invocations == {1, 2}

\* the workload of invocation i: i groups of i threads
Params(i) ==
    Profile("netperf",
            [k \in 1..i |-> Group([nthreads |-> Some(i), nprocs |-> None], <<>>)])

\* a file a failed write leaves behind
Truncated == Document(<<>>, 0)

NoChild == [config |-> None, stderr |-> <<>>]
NoCapture == [outs |-> None, errs |-> None]

S0 == SampleLine(16000, TRUE, 1, 7, 0)
S50 == SampleLine(24000, TRUE, 1, 7, 50)
\* what the child writes to its stdout
ClientOutputs ==
    {<<>>,
     <<ProfileLine>>,
     <<ProfileLine, S0>>,
     <<ProfileLine, S0, S50>>,
     <<ProfileLine, S50>>,
     <<ProfileLine, S0, S50, AbortedLine>>,
     <<ProfileLine, WarningLine, S0, S50>>,
     <<AbortedLine>>}
\* what the child writes to its stderr
ClientErrors == {<<>>, <<OtherLine>>}

Running(i) == pc[i] \notin {"idle", "off", "done"}

Goto(i, label) == pc' = [pc EXCEPT ![i] = label]
Raise(i, exc) ==
    /\ pc' = [pc EXCEPT ![i] = "done"]
    /\ result' = [result EXCEPT ![i] = Raised(exc)]

\* the step is invoked
Call(i) ==
    /\ pc[i] = "idle"
    /\ Goto(i, "clean1")
    /\ overlapped' = (overlapped \/ \E j \in Invocations \ {i} : Running(j))
    /\ UNCHANGED <<file, child, captured, result>>
    /\ UNCHANGED <<parseVars, profileVars, serverVars>>

\* clean_profile: os.path.exists(profile_path)
CleanExists(i) ==
    /\ pc[i] \in {"clean1", "clean2"}
    /\ IF file # <<>>
       THEN Goto(i, IF pc[i] = "clean1" THEN "remove1" ELSE "remove2")
       ELSE Goto(i, IF pc[i] = "clean1" THEN "write" ELSE "check")
    /\ UNCHANGED <<file, child, captured, result, overlapped>>
    /\ UNCHANGED <<parseVars, profileVars, serverVars>>

\* clean_profile: os.remove(profile_path)
CleanRemove(i) ==
    /\ pc[i] \in {"remove1", "remove2"}
    /\ IF file # <<>>
       THEN /\ file' = <<>>
            /\ Goto(i, IF pc[i] = "remove1" THEN "write" ELSE "check")
            /\ UNCHANGED result
       ELSE /\ Raise(i, "FileNotFoundError")
            /\ UNCHANGED file
    /\ UNCHANGED <<child, captured, overlapped>>
    /\ UNCHANGED <<parseVars, profileVars, serverVars>>

\* write_profile: the tree is written
WriteTree(i) ==
    /\ pc[i] = "write"
    /\ file' = <<tree_write(Params(i))>>
    /\ Goto(i, "newline")
    /\ UNCHANGED <<child, captured, result, overlapped>>
    /\ UNCHANGED <<parseVars, profileVars, serverVars>>

\* write_profile: the write fails (OSError); the file is as it was, or
\* truncated
WriteFails(i) ==
    /\ pc[i] = "write"
    /\ file' \in {file, <<Truncated>>}
    /\ Raise(i, "OSError")
    /\ UNCHANGED <<child, captured, overlapped>>
    /\ UNCHANGED <<parseVars, profileVars, serverVars>>

\* write_profile: the newline is appended
WriteNewline(i) ==
    /\ pc[i] = "newline"
    /\ file' = append_newline(file)
    /\ Goto(i, "launch")
    /\ UNCHANGED <<child, captured, result, overlapped>>
    /\ UNCHANGED <<parseVars, profileVars, serverVars>>

\* start_client: Popen starts the child
Launch(i) ==
    /\ pc[i] = "launch"
    /\ Goto(i, "child_read")
    /\ UNCHANGED <<file, child, captured, result, overlapped>>
    /\ UNCHANGED <<parseVars, profileVars, serverVars>>

\* start_client: Popen fails to start the child (OSError)
LaunchFails(i) ==
    /\ pc[i] = "launch"
    /\ Raise(i, "OSError")
    /\ UNCHANGED <<file, child, captured, overlapped>>
    /\ UNCHANGED <<parseVars, profileVars, serverVars>>

\* the child reads the file named by -m
ChildReads(i) ==
    /\ pc[i] = "child_read"
    /\ child' = [child EXCEPT ![i].config = Some(file)]
    /\ Goto(i, "child_run")
    /\ UNCHANGED <<file, captured, result, overlapped>>
    /\ UNCHANGED <<parseVars, profileVars, serverVars>>

\* the child exits and communicate() returns
ChildExits(i) ==
    /\ pc[i] = "child_run"
    /\ \E out \in ClientOutputs, err \in ClientErrors :
          /\ child' = [child EXCEPT ![i].stderr = err]
          /\ captured' = [captured EXCEPT ![i] = communicate(start_client, out, err)]
    /\ Goto(i, "clean2")
    /\ UNCHANGED <<file, result, overlapped>>
    /\ UNCHANGED <<parseVars, profileVars, serverVars>>

\* lines 212-225
Return(i) ==
    /\ pc[i] = "check"
    /\ result' = [result EXCEPT ![i] = run_uperf_return(captured[i])]
    /\ Goto(i, "done")
    /\ UNCHANGED <<file, child, captured, overlapped>>
    /\ UNCHANGED <<parseVars, profileVars, serverVars>>

ClientNext ==
    \E i \in Invocations :
        \/ Call(i)
        \/ CleanExists(i)
        \/ CleanRemove(i)
        \/ WriteTree(i)
        \/ WriteFails(i)
        \/ WriteNewline(i)
        \/ Launch(i)
        \/ LaunchFails(i)
        \/ ChildReads(i)
        \/ ChildExits(i)
        \/ Return(i)

\* --------------------------------------------------------- run_uperf_server
Durations == 1..MaxDuration
ExitCodes == {0, 1, 255}
ServerTexts == {<<>>, <<OtherLine>>}

NoServer == [state |-> "none", returncode |-> 0, stdout |-> <<>>,
             stderr |-> <<>>]

\* subprocess.run starts "uperf -s"
ServerLaunch ==
    /\ spc = "idle"
    /\ spc' = "waiting"
    /\ server' = [server EXCEPT !.state = "running"]
    /\ UNCHANGED <<run_duration, clock, sresult>>
    /\ UNCHANGED <<parseVars, profileVars, clientVars>>

\* subprocess.run fails to start it (OSError)
ServerLaunchFails ==
    /\ spc = "idle"
    /\ spc' = "done"
    /\ sresult' = ServerRaised
    /\ UNCHANGED <<run_duration, clock, server>>
    /\ UNCHANGED <<parseVars, profileVars, clientVars>>

\* time passes while subprocess.run waits
Tick ==
    /\ spc = "waiting"
    /\ clock < run_duration
    /\ clock' = clock + 1
    /\ UNCHANGED <<spc, run_duration, server, sresult>>
    /\ UNCHANGED <<parseVars, profileVars, clientVars>>

\* the server exits before the timeout; subprocess.run returns
ServerExits ==
    /\ spc = "waiting"
    /\ clock < run_duration
    /\ \E code \in ExitCodes, out \in ServerTexts, err \in ServerTexts :
          /\ server' = [state |-> "exited", returncode |-> code,
                        stdout |-> out, stderr |-> err]
          /\ sresult' = run_uperf_server_return(server')
    /\ spc' = "done"
    /\ UNCHANGED <<run_duration, clock>>
    /\ UNCHANGED <<parseVars, profileVars, clientVars>>

\* the timeout expires; subprocess.run kills the server and raises
\* TimeoutExpired
ServerTimesOut ==
    /\ spc = "waiting"
    /\ clock = run_duration
    /\ server' = [server EXCEPT !.state = "killed"]
    /\ sresult' = run_uperf_server_return(server')
    /\ spc' = "done"
    /\ UNCHANGED <<run_duration, clock>>
    /\ UNCHANGED <<parseVars, profileVars, clientVars>>

ServerNext ==
    \/ ServerLaunch
    \/ ServerLaunchFails
    \/ Tick
    \/ ServerExits
    \/ ServerTimesOut

\* ----------------------------------------------------------- specifications
\* process_output is called on a text; nothing else runs
InitParse ==
    /\ output \in SeqsUpTo(ParseLines, MaxLines)
    /\ ppc = "start"
    /\ datapoints = <<>>
    /\ pos = 0
    /\ loop = LoopInit
    /\ presult = NoResult
    /\ wp_profile = Profile("netperf", <<>>)
    /\ wp_file = <<>>
    /\ file = <<>>
    /\ pc = [i \in Invocations |-> "off"]
    /\ child = [i \in Invocations |-> NoChild]
    /\ captured = [i \in Invocations |-> NoCapture]
    /\ result = [i \in Invocations |-> NoResult]
    /\ overlapped = FALSE
    /\ spc = "off"
    /\ run_duration = 1
    /\ clock = 0
    /\ server = NoServer
    /\ sresult = ServerNoResult

SpecParse == InitParse /\ [][ParseNext]_vars

\* write_profile is called on a profile; nothing else runs
InitProfile ==
    /\ \E listing \in SeqsUpTo(Nodes, MaxNodes) :
          /\ WellFormed(listing)
          /\ wp_profile = ProfileOf(listing)
    /\ wp_file = <<>>
    /\ output = <<>>
    /\ ppc = "idle"
    /\ datapoints = <<>>
    /\ pos = 0
    /\ loop = LoopInit
    /\ presult = NoResult
    /\ file = <<>>
    /\ pc = [i \in Invocations |-> "off"]
    /\ child = [i \in Invocations |-> NoChild]
    /\ captured = [i \in Invocations |-> NoCapture]
    /\ result = [i \in Invocations |-> NoResult]
    /\ overlapped = FALSE
    /\ spc = "off"
    /\ run_duration = 1
    /\ clock = 0
    /\ server = NoServer
    /\ sresult = ServerNoResult

SpecProfile == InitProfile /\ [][WriteProfile]_vars

\* the client step is about to be invoked, in a working directory that is
\* empty or holds the file an earlier failed invocation left
Init ==
    /\ file \in {<<>>, <<Truncated>>}
    /\ pc = [i \in Invocations |-> "idle"]
    /\ child = [i \in Invocations |-> NoChild]
    /\ captured = [i \in Invocations |-> NoCapture]
    /\ result = [i \in Invocations |-> NoResult]
    /\ overlapped = FALSE
    /\ output = <<>>
    /\ ppc = "idle"
    /\ datapoints = <<>>
    /\ pos = 0
    /\ loop = LoopInit
    /\ presult = NoResult
    /\ wp_profile = Profile("netperf", <<>>)
    /\ wp_file = <<>>
    /\ spc = "off"
    /\ run_duration = 1
    /\ clock = 0
    /\ server = NoServer
    /\ sresult = ServerNoResult

Spec == Init /\ [][ClientNext]_vars

\* the server step is about to be invoked with some run_duration
InitServer ==
    /\ spc = "idle"
    /\ run_duration \in Durations
    /\ clock = 0
    /\ server = NoServer
    /\ sresult = ServerNoResult
    /\ output = <<>>
    /\ ppc = "idle"
    /\ datapoints = <<>>
    /\ pos = 0
    /\ loop = LoopInit
    /\ presult = NoResult
    /\ wp_profile = Profile("netperf", <<>>)
    /\ wp_file = <<>>
    /\ file = <<>>
    /\ pc = [i \in Invocations |-> "off"]
    /\ child = [i \in Invocations |-> NoChild]
    /\ captured = [i \in Invocations |-> NoCapture]
    /\ result = [i \in Invocations |-> NoResult]
    /\ overlapped = FALSE

SpecServer == InitServer /\ [][ServerNext]_vars

\* ---------------------------------------------------- process_output, claims
\* positions of the samples of a transaction index among the datapoints
PositionsOf(idx) == {k \in 1..Len(datapoints) : datapoints[k].txn = idx}
FirstOf(idx) == CHOOSE k \in PositionsOf(idx) : \A j \in PositionsOf(idx) : k <= j
SecondOf(idx) ==
    CHOOSE k \in PositionsOf(idx) \ {FirstOf(idx)} :
        \A j \in PositionsOf(idx) \ {FirstOf(idx)} : k <= j
\* the loop has just consumed datapoint k
JustProcessed(k) == ppc = "loop" /\ pos = k

\* C2: process_output always ends by returning a tagged value, 'success' or
\* 'error', and never with an uncaught exception, whatever the samples are.
C2_AlwaysTagged ==
    ppc = "done" => presult.tag \in {"success", "error"}

\* a sample of transaction 3 at 1500ms with ops=50 has just been consumed,
\* and the datapoint before it was a sample of transaction 3 at 1000ms
C4_Case(k) ==
    /\ JustProcessed(k)
    /\ datapoints[k].txn = 3 /\ datapoints[k - 1].txn = 3
    /\ datapoints[k - 1].ts16 = 16000 /\ datapoints[k].ts16 = 24000
    /\ datapoints[k].nr_ops = 50

\* C4: when a sample of transaction 3 at 1500ms (key 1500000) with ops=50
\* follows a sample of transaction 3 at 1000ms (key 1000000), the
\* measurement stored for it has ns_per_op = 1000*(1500000-1000000)/50,
\* which is 10000000.
C4_Latency ==
    \A k \in 2..Len(datapoints) :
        C4_Case(k)
        => /\ 3 \in DOMAIN loop.timeseries_data
           /\ 1500000 \in DOMAIN loop.timeseries_data[3]
           /\ loop.timeseries_data[3][1500000].nr_ops = 50
           /\ loop.timeseries_data[3][1500000].ns_per_op
                  = (1000 * (1500000 - 1000000)) \div 50
           /\ loop.timeseries_data[3][1500000].ns_per_op = 10000000

\* C4 as stated: the stored ns_per_op is 10000.
C4_AsStated ==
    \A k \in 2..Len(datapoints) :
        C4_Case(k)
        => /\ 3 \in DOMAIN loop.timeseries_data
           /\ 1500000 \in DOMAIN loop.timeseries_data[3]
           /\ loop.timeseries_data[3][1500000].ns_per_op = 10000

C4_Witness == Len(datapoints) >= 2 /\ C4_Case(2)

\* C5: when the first sample of a transaction index has ops=0, that sample
\* is not stored but its timestamp becomes the last timestamp of the index,
\* and the second sample of the index is stored with
\* ns_per_op = 1000*(t2 - t1) div ops (0 when its ops is 0).
C5_FirstZero ==
    \A idx \in TxnIndexes :
        (PositionsOf(idx) # {} /\ datapoints[FirstOf(idx)].nr_ops = 0)
        => /\ JustProcessed(FirstOf(idx))
              => /\ idx \notin DOMAIN loop.timeseries_data
                 /\ idx \in DOMAIN loop.transaction_last_timestamp
                 /\ loop.transaction_last_timestamp[idx]
                        = (datapoints[FirstOf(idx)].ts16 * 1000) \div 16
           /\ (Cardinality(PositionsOf(idx)) >= 2 /\ JustProcessed(SecondOf(idx)))
              => LET t1 == (datapoints[FirstOf(idx)].ts16 * 1000) \div 16
                     t2 == (datapoints[SecondOf(idx)].ts16 * 1000) \div 16
                     ops == datapoints[SecondOf(idx)].nr_ops
                     d == 1000 * (t2 - t1)
                     q == IF ops = 0 THEN 0
                          ELSE IF d >= 0 THEN d \div ops ELSE -((-d) \div ops)
                 IN /\ idx \in DOMAIN loop.timeseries_data
                    /\ DOMAIN loop.timeseries_data[idx] = {t2}
                    /\ loop.timeseries_data[idx][t2] =
                          [nr_bytes |-> datapoints[SecondOf(idx)].nr_bytes,
                           nr_ops |-> ops, ns_per_op |-> q]

\* the second sample of an index whose first sample had ops=0 was stored
\* with a latency that needed truncation, relative to a nonzero t1
C5_Witness ==
    \E idx \in TxnIndexes :
        /\ Cardinality(PositionsOf(idx)) >= 2
        /\ datapoints[FirstOf(idx)].nr_ops = 0
        /\ JustProcessed(SecondOf(idx))
        /\ datapoints[SecondOf(idx)].nr_ops = 3
        /\ datapoints[SecondOf(idx)].ts16 # datapoints[FirstOf(idx)].ts16

\* C10: process_output never returns 'success' with an empty time series:
\* a successful result has a transaction index and every index present has
\* a measurement.
C10_NeverEmptySuccess ==
    (ppc = "done" /\ presult.tag = "success")
    => /\ DOMAIN presult.timeseries_data # {}
       /\ \A idx \in DOMAIN presult.timeseries_data :
              DOMAIN presult.timeseries_data[idx] # {}

\* ------------------------------------------------------ write_profile, claim
AttrKeys(element) == {element.attrib[k].key : k \in 1..Len(element.attrib)}

\* C8: each group node carries at most one of nthreads/nprocs and each
\* transaction node at most one of iterations/duration/rate, the first
\* populated field in that order; groups, transactions and flowops are
\* emitted in the order supplied.
C8_ProfileShape ==
    wp_file # <<>> =>
    LET root == wp_file[1].content[1]
        groups == wp_profile.groups
    IN
    /\ Len(root.children) = Len(groups)
    /\ \A gi \in 1..Len(groups) :
        LET g == groups[gi]
            ge == root.children[gi]
        IN
        /\ ge.tag = "group"
        /\ Len(ge.attrib) <= 1
        /\ AttrKeys(ge) = (IF g.nthreads # <<>> THEN {"nthreads"}
                           ELSE IF g.nprocs # <<>> THEN {"nprocs"}
                           ELSE {})
        /\ Len(ge.children) = Len(g.transactions)
        /\ \A ti \in 1..Len(g.transactions) :
            LET t == g.transactions[ti]
                te == ge.children[ti]
            IN
            /\ te.tag = "transaction"
            /\ Len(te.attrib) <= 1
            /\ AttrKeys(te) = (IF t.iterations # <<>> THEN {"iterations"}
                               ELSE IF t.duration # <<>> THEN {"duration"}
                               ELSE IF t.rate # <<>> THEN {"rate"}
                               ELSE {})
            /\ Len(te.children) = Len(t.flowops)
            /\ \A fi \in 1..Len(t.flowops) :
                /\ te.children[fi].tag = "flowop"
                /\ te.children[fi].attrib[1].key = "type"
                /\ te.children[fi].attrib[1].value = <<t.flowops[fi].type>>

\* a written profile of two different groups, one with both nthreads and
\* nprocs populated, holding a transaction with duration and rate populated
C8_Witness ==
    /\ wp_file # <<>>
    /\ Len(wp_profile.groups) = 2
    /\ wp_profile.groups[1] # wp_profile.groups[2]
    /\ \E gi \in 1..2 :
        /\ wp_profile.groups[gi].nthreads # <<>>
        /\ wp_profile.groups[gi].nprocs # <<>>
        /\ \E ti \in 1..Len(wp_profile.groups[gi].transactions) :
            /\ wp_profile.groups[gi].transactions[ti].iterations = <<>>
            /\ wp_profile.groups[gi].transactions[ti].duration # <<>>
            /\ wp_profile.groups[gi].transactions[ti].rate # <<>>

\* ---------------------------------------------------------- run_uperf, claims
Quiet == \A j \in Invocations : ~Running(j)

\* C1: once run_uperf has completed, on any exit path, profile.xml does not
\* exist.
C1_NoArtifactLeft ==
    (~overlapped /\ Quiet /\ \E i \in Invocations : pc[i] = "done")
    => file = <<>>

\* C3: when the child wrote to its error stream, the invocation returns an
\* 'error' whose detail is the stdout followed by the stderr data, and not
\* a result of the parser.
C3_StderrIsFailure ==
    \A i \in Invocations :
        (~overlapped /\ pc[i] = "done" /\ child[i].stderr # <<>>)
        => /\ result[i].tag = "error"
           /\ result[i].text = captured[i].outs[1] \o child[i].stderr

\* the captured stdout holds one of the two markers
MarkerIn(text) ==
    \E k \in 1..Len(text) : text[k].kind \in {"aborted", "warning"}

\* C7: when the captured stdout holds 'aborted' or 'WARNING: Errors detected
\* during run', run_uperf returns the 'error' carrying the whole output and
\* not a result of process_output, whatever else the output holds; it
\* decides so only after profile.xml has been removed.
C7_MarkerIsError ==
    [][\A i \in Invocations :
          (pc[i] = "check" /\ pc'[i] = "done")
          => /\ ~overlapped => file = <<>>
             /\ MarkerIn(captured[i].outs[1])
                => /\ result'[i].tag = "error"
                   /\ result'[i].kind = "Errors found in run"
                   /\ result'[i].text = captured[i].outs[1]]_vars

\* an invocation returned for an output that holds the profile line, samples
\* and a marker
C7_Witness ==
    \E i \in Invocations :
        /\ pc[i] = "done"
        /\ captured[i].outs = <<(<<ProfileLine, WarningLine, S0, S50>>)>>
        /\ result[i].tag = "error"

\* C9: a child that finds profile.xml absent or holding another workload
\* than its own invocation's belongs to a run in which two invocations
\* overlapped; when the invocations are strictly sequential every child
\* reads its own invocation's workload.
C9_ForeignConfigOnlyWhenOverlapped ==
    \A i \in Invocations :
        /\ (/\ child[i].config # <<>>
            /\ \/ child[i].config[1] = <<>>
               \/ child[i].config[1][1].content # <<profile_tree(Params(i))>>
               \/ child[i].config[1][1].newlines # 1)
           => overlapped
        /\ (/\ pc[i] \in {"child_read", "child_run"}
            /\ \/ file = <<>>
               \/ file[1].content # <<profile_tree(Params(i))>>
               \/ file[1].newlines # 1)
           => overlapped

\* overlapping invocations: the child of one found no profile.xml and the
\* child of the other read the first one's workload
C9_Witness ==
    /\ overlapped
    /\ child[1].config = <<(<<>>)>>
    /\ child[2].config # <<>>
    /\ child[2].config[1] # <<>>
    /\ child[2].config[1][1].content = <<profile_tree(Params(1))>>

====
